---- MODULE Spec2Model ----
(***************************************************************************)
(* State-machine model of Project/main.py: the users table, the password   *)
(* hasher, the JWT codec and the HTTP handlers (register, login, logout,   *)
(* discussions, debug listings).                                           *)
(*                                                                         *)
(* Strings that the code transforms (email, username, the token's sub) are *)
(* sequences of one-character strings, so that strip(), lower(), str() and *)
(* int() are computed and not assumed.  Optional values (Python None) are  *)
(* sequences of length 0 or 1.  Time is in whole seconds, the resolution   *)
(* of a JWT "exp" claim.                                                   *)
(***************************************************************************)
EXTENDS Integers, Sequences, FiniteSets, TLC

VARIABLES users, now, pc, req, loc, resp, held

vars == <<users, now, pc, req, loc, resp, held>>

----------------------------------------------------------------------------
(* Program constants                                                       *)

SECRET_KEY == "replace_this_with_a_long_random_secret_in_prod"

ACCESS_TOKEN_EXPIRE_MINUTES == 60 * 24 * 7

DefaultTTL == ACCESS_TOKEN_EXPIRE_MINUTES * 60

(* Bound of the model: the clock is followed this many seconds past one    *)
(* default token lifetime.                                                 *)
Horizon == 1

----------------------------------------------------------------------------
(* Optional values                                                         *)

None == <<>>

Some(x) == <<x>>

----------------------------------------------------------------------------
(* str.strip() and str.lower() on character sequences                      *)

IsSpace(c) == c = " "

RECURSIVE LStrip(_)
LStrip(s) ==
    IF s # <<>> /\ IsSpace(Head(s)) THEN LStrip(Tail(s)) ELSE s

RECURSIVE RStrip(_)
RStrip(s) ==
    IF s # <<>> /\ IsSpace(s[Len(s)]) THEN RStrip(SubSeq(s, 1, Len(s) - 1)) ELSE s

Strip(s) == RStrip(LStrip(s))

LowerChar(c) ==
    CASE c = "A" -> "a"
      [] c = "B" -> "b"
      [] OTHER -> c

Lower(s) == [i \in 1..Len(s) |-> LowerChar(s[i])]

(* Faulty variant: the address is trimmed and its case kept *)
NormEmail_NoLower(email) == Strip(email)

(* email.strip().lower(), lines 168 and 196 *)
NormEmail(email) == Lower(Strip(email))

(* username.strip(), line 168 *)
NormUsername(username) == Strip(username)

----------------------------------------------------------------------------
(* str(int) and int(str) for the token subject                             *)

Digits == <<"0", "1", "2", "3", "4", "5", "6", "7", "8", "9">>

RECURSIVE Str(_)
Str(n) ==
    IF n < 10 THEN <<Digits[n + 1]>>
    ELSE Str(n \div 10) \o <<Digits[(n % 10) + 1]>>

IsDigit(c) == \E d \in 1..10 : Digits[d] = c

DigitVal(c) == (CHOOSE d \in 1..10 : Digits[d] = c) - 1

RECURSIVE DigitsVal(_)
DigitsVal(s) ==
    IF s = <<>> THEN 0
    ELSE 10 * DigitsVal(SubSeq(s, 1, Len(s) - 1)) + DigitVal(s[Len(s)])

(* int(s): surrounding whitespace is ignored, then decimal digits are      *)
(* required; anything else raises ValueError (None here).                  *)
Int_(s) ==
    LET t == Strip(s)
    IN  IF t # <<>> /\ \A i \in 1..Len(t) : IsDigit(t[i])
        THEN Some(DigitsVal(t))
        ELSE None

----------------------------------------------------------------------------
(* Credential hasher (passlib argon2): a salted one-way digest.  The       *)
(* digest is a function of salt and password; the salt is drawn at random  *)
(* by hash() and stored in the hash string.                                *)

Salts == {"s1", "s2"}

Digest(salt, password) == <<salt, password>>

get_password_hash(password, salt) ==
    [salt |-> salt, digest |-> Digest(salt, password)]

(* Faulty variant: every password verifies *)
verify_password_Any(plain, hashed) == TRUE

verify_password(plain, hashed) ==
    hashed.digest = Digest(hashed.salt, plain)

----------------------------------------------------------------------------
(* Token codec (jose.jwt, HS256).  A cookie value is one of: the empty     *)
(* string, a string that is no JWT, or a JWT with its claims and the key   *)
(* that signed it.                                                         *)

Jwt(sub, exp, key) == [form |-> "jwt", sub |-> sub, exp |-> exp, key |-> key]

EmptyString == [form |-> "empty", sub |-> None, exp |-> 0, key |-> ""]

Malformed == [form |-> "malformed", sub |-> None, exp |-> 0, key |-> ""]

(* `if expires_delta:` : None and timedelta(0) are both falsy *)
Truthy(expires_delta) == expires_delta # None /\ expires_delta[1] # 0

create_access_token(data, expires_delta, t) ==
    LET expire == IF Truthy(expires_delta)
                  THEN t + expires_delta[1]
                  ELSE t + DefaultTTL
    IN  Jwt(data.sub, expire, SECRET_KEY)

(* Faulty variant: the signature is not verified *)
decode_token_NoSignature(token, t) ==
    IF token.form = "jwt" /\ ~(token.exp < t)
    THEN Some([sub |-> token.sub, exp |-> token.exp])
    ELSE None

(* jwt.decode raises JWTError on a malformed token, a bad signature or an  *)
(* expired token (exp < now); decode_token turns that into None.           *)
decode_token(token, t) ==
    IF /\ token.form = "jwt"
       /\ token.key = SECRET_KEY
       /\ ~(token.exp < t)
    THEN Some([sub |-> token.sub, exp |-> token.exp])
    ELSE None

----------------------------------------------------------------------------
(* User store: the users table, rows in id order                           *)

User(id, username, email, hashed_password, created_at) ==
    [id |-> id, username |-> username, email |-> email,
     hashed_password |-> hashed_password, created_at |-> created_at]

Rows(table) == {table[i] : i \in 1..Len(table)}

(* Faulty variant: the store hands out the highest id again *)
NextId_NoIncrement(table) ==
    IF table = <<>> THEN 1
    ELSE CHOOSE m \in {r.id : r \in Rows(table)} : \A r \in Rows(table) : r.id <= m

(* Integer primary key: the store assigns max(id) + 1 *)
NextId(table) ==
    IF table = <<>> THEN 1
    ELSE 1 + (CHOOSE m \in {r.id : r \in Rows(table)} :
                  \A r \in Rows(table) : r.id <= m)

(* Faulty variant: the email column carries no unique constraint *)
UniqueEmail_Unenforced(table, email) == TRUE

(* unique=True on email: the insert is refused when a row holds the email *)
UniqueEmail(table, email) == \A r \in Rows(table) : r.email # email

(* db.query(User).filter(User.email == e).first() *)
find_by_email(table, email) ==
    LET hits == {i \in 1..Len(table) : table[i].email = email}
    IN  IF hits = {} THEN None
        ELSE Some(table[CHOOSE i \in hits : \A j \in hits : i <= j])

(* Faulty variant: the query has lost its filter *)
find_by_id_NoFilter(table, uid) ==
    IF table = <<>> THEN None ELSE Some(table[1])

(* db.query(User).filter(User.id == uid).first() *)
find_by_id(table, uid) ==
    LET hits == {i \in 1..Len(table) : table[i].id = uid}
    IN  IF hits = {} THEN None
        ELSE Some(table[CHOOSE i \in hits : \A j \in hits : i <= j])

----------------------------------------------------------------------------
(* Session resolution of GET /discussions, lines 124-133                   *)

resolve_user(cookie, table, t) ==
    IF cookie = None \/ cookie[1].form = "empty"
    THEN None
    ELSE LET data == decode_token(cookie[1], t)
         IN  IF data # None /\ data[1].sub # None
             THEN LET uid == Int_(data[1].sub[1])
                  IN  IF uid = None THEN None ELSE find_by_id(table, uid[1])
             ELSE None

----------------------------------------------------------------------------
(* Requests and responses                                                  *)

Request(kind, username, email, password, password_confirm, cookie) ==
    [kind |-> kind, username |-> username, email |-> email,
     password |-> password, password_confirm |-> password_confirm,
     cookie |-> cookie]

NoReq == Request("none", <<>>, <<>>, "", "", None)

Response(status, body, location, cookie, token, user, users_list) ==
    [status |-> status, body |-> body, location |-> location, cookie |-> cookie,
     token |-> token, user |-> user, users_list |-> users_list]

(* HTMLResponse("<h3>...</h3>", status_code=status): body names the message *)
HTMLResponse(status, body) == Response(status, body, "", "none", None, None, <<>>)

(* Faulty variant: the redirect is returned without set_cookie *)
TokenRedirect_NoCookie(token) ==
    Response(303, "", "/discussions", "none", None, None, <<>>)

(* RedirectResponse("/discussions", 303) with set_cookie("access_token") *)
TokenRedirect(token) ==
    Response(303, "", "/discussions", "set", Some(token), None, <<>>)

(* Faulty variant: the redirect is returned without delete_cookie *)
LogoutRedirect_KeepsCookie == Response(303, "", "/", "none", None, None, <<>>)

(* RedirectResponse("/", 303) with delete_cookie("access_token") *)
LogoutRedirect == Response(303, "", "/", "delete", None, None, <<>>)

(* The rendered discussions page with its template context *)
Page(user, users_list) ==
    Response(200, "discussions", "", "none", None, user, users_list)

(* The inline page returned when the template is not found *)
Fallback == Response(200, "temporarily unavailable", "", "none", None, None, <<>>)

(* The debug listings: every row of the table *)
Listing(table) == Response(200, "users", "", "none", None, None, table)

----------------------------------------------------------------------------
(* Inputs the requests are drawn from                                      *)

RawEmails == {<<"a">>, <<" ", "A", " ">>, <<"b">>}

RawUsernames == {<<"u", " ">>}

Passwords == {"p", "q"}

TokenSubs == {Some(Str(1)), Some(Str(2)), Some(Str(3)), Some(<<" ", "1">>),
              Some(<<"x">>), None}

FixedCookies ==
    {None, Some(EmptyString), Some(Malformed),
     Some(Jwt(Some(Str(1)), 2 * DefaultTTL, "another key"))}
    \cup {Some(Jwt(s, DefaultTTL, SECRET_KEY)) : s \in TokenSubs}

RegisterRequests ==
    {Request("register", u, e, p, c, None) :
        u \in RawUsernames, e \in RawEmails, p \in Passwords, c \in Passwords}

LoginRequests ==
    {Request("login", <<>>, e, p, "", None) : e \in RawEmails, p \in Passwords}

DebugRequests ==
    {Request(k, <<>>, <<>>, "", "", None) :
        k \in {"debug_users", "debug_users_html"}}

----------------------------------------------------------------------------
(* State                                                                   *)
(*   users  the users table                                                *)
(*   now    the clock (datetime.utcnow(), in seconds)                      *)
(*   pc     per worker: where its handler stands                           *)
(*   req    per worker: the request it is handling, or handled last         *)
(*   loc    per worker: the handler's local `user` object                  *)
(*   resp   per worker: the response it returned last                      *)
(*   held   client side: one access token a client has kept from a 303     *)
(*          response, the id of the user it was issued for, and whether    *)
(*          GET /logout has been called since                              *)

InitWith(workers) ==
    /\ users = <<>>
    /\ now = 0
    /\ pc = [p \in workers |-> "idle"]
    /\ req = [p \in workers |-> NoReq]
    /\ loc = [p \in workers |-> None]
    /\ resp = [p \in workers |-> None]
    /\ held = None

Workers == DOMAIN pc

(* A handler returns: the worker is idle again and its session is closed *)
Return(p, response) ==
    /\ pc' = [pc EXCEPT ![p] = "idle"]
    /\ req' = req
    /\ loc' = [loc EXCEPT ![p] = None]
    /\ resp' = [resp EXCEPT ![p] = Some(response)]

(* The client keeps the token of a 303 response, or keeps what it had *)
Keep(token, uid) ==
    held' \in {held, Some([tok |-> token, uid |-> uid, out |-> FALSE])}

(* A request arrives at an idle worker and is routed to its handler *)
Receive(p, requests) ==
    /\ pc[p] = "idle"
    /\ \E r \in requests :
          /\ req' = [req EXCEPT ![p] = r]
          /\ pc' = [pc EXCEPT ![p] = r.kind]
    /\ resp' = [resp EXCEPT ![p] = None]
    /\ UNCHANGED <<users, now, loc, held>>

(* The cookie a client sends: any of the fixed values, or the token kept *)
Cookies == FixedCookies \cup {Some(held[i].tok) : i \in 1..Len(held)}

CookieRequests ==
    {Request(k, <<>>, <<>>, "", "", c) :
        k \in {"discussions", "logout"}, c \in Cookies}

AnyRequest(p) ==
    Receive(p, RegisterRequests \cup LoginRequests \cup DebugRequests
                   \cup CookieRequests)

RegisterRequest(p) == Receive(p, RegisterRequests)

(* Faulty variant: the gate is skipped *)
passwords_differ_Never(password, password_confirm) == FALSE

(* `if password != password_confirm:`, line 161 *)
passwords_differ(password, password_confirm) == password # password_confirm

(* POST /register, lines 161-169: the password gate, the hash, db.add *)
post_register(p) ==
    /\ pc[p] = "register"
    /\ IF passwords_differ(req[p].password, req[p].password_confirm)
       THEN /\ Return(p, HTMLResponse(400, "passwords do not match"))
            /\ UNCHANGED <<users, now, held>>
       ELSE /\ \E salt \in Salts :
                  loc' = [loc EXCEPT ![p] =
                            Some(User(0, NormUsername(req[p].username),
                                      NormEmail(req[p].email),
                                      get_password_hash(req[p].password, salt),
                                      0))]
            /\ pc' = [pc EXCEPT ![p] = "commit"]
            /\ UNCHANGED <<users, now, req, resp, held>>

(* POST /register, lines 170-191: db.commit() is one atomic insert that  *)
(* the store refuses (IntegrityError) on a duplicate email               *)
post_register_commit(p) ==
    /\ pc[p] = "commit"
    /\ LET user == loc[p][1]
       IN  IF UniqueEmail(users, user.email)
           THEN LET row == User(NextId(users), user.username, user.email,
                                user.hashed_password, now)
                    access_token ==
                        create_access_token([sub |-> Some(Str(row.id))], None, now)
                IN  /\ users' = Append(users, row)
                    /\ Return(p, TokenRedirect(access_token))
                    /\ Keep(access_token, row.id)
           ELSE /\ Return(p, HTMLResponse(400, "email already exists"))
                /\ UNCHANGED <<users, held>>
    /\ UNCHANGED now

(* POST /login, lines 194-213 *)
post_login(p) ==
    /\ pc[p] = "login"
    /\ LET user == find_by_email(users, NormEmail(req[p].email))
       IN  IF user = None
           THEN /\ Return(p, HTMLResponse(401, "user not found"))
                /\ UNCHANGED held
           ELSE IF ~verify_password(req[p].password, user[1].hashed_password)
           THEN /\ Return(p, HTMLResponse(401, "wrong password"))
                /\ UNCHANGED held
           ELSE LET access_token ==
                        create_access_token([sub |-> Some(Str(user[1].id))], None, now)
                IN  /\ Return(p, TokenRedirect(access_token))
                    /\ Keep(access_token, user[1].id)
    /\ UNCHANGED <<users, now>>

(* GET /logout, lines 215-219 *)
logout(p) ==
    /\ pc[p] = "logout"
    /\ Return(p, LogoutRedirect)
    /\ held' = [i \in 1..Len(held) |-> [held[i] EXCEPT !.out = TRUE]]
    /\ UNCHANGED <<users, now>>

(* GET /discussions, lines 124-133: the cookie is resolved to a user *)
discussions(p) ==
    /\ pc[p] = "discussions"
    /\ loc' = [loc EXCEPT ![p] = Some(resolve_user(req[p].cookie, users, now))]
    /\ pc' = [pc EXCEPT ![p] = "render"]
    /\ UNCHANGED <<users, now, req, resp, held>>

(* GET /discussions, lines 135-143: the user list is loaded and the page *)
(* (or its fallback) is returned                                          *)
discussions_render(p) ==
    /\ pc[p] = "render"
    /\ \E template_found \in BOOLEAN :
          Return(p, IF template_found THEN Page(loc[p][1], users) ELSE Fallback)
    /\ UNCHANGED <<users, now, held>>

(* GET /debug/users, lines 93-99 *)
get_all_users(p) ==
    /\ pc[p] = "debug_users"
    /\ Return(p, Listing(users))
    /\ UNCHANGED <<users, now, held>>

(* GET /debug/users/html, lines 101-119 *)
get_all_users_html(p) ==
    /\ pc[p] = "debug_users_html"
    /\ Return(p, Listing(users))
    /\ UNCHANGED <<users, now, held>>

(* The clock advances to a later instant; the instants followed are the   *)
(* end of a default token lifetime and the seconds after it               *)
Tick ==
    /\ \E t \in {DefaultTTL + k : k \in 0..Horizon} :
          /\ t > now
          /\ now' = t
    /\ UNCHANGED <<users, pc, req, loc, resp, held>>

----------------------------------------------------------------------------
(* Spec: one worker serving any sequence of requests                      *)

Init == InitWith({1})

Next ==
    \/ \E p \in Workers :
          \/ AnyRequest(p)
          \/ post_register(p)
          \/ post_register_commit(p)
          \/ post_login(p)
          \/ logout(p)
          \/ discussions(p)
          \/ discussions_render(p)
          \/ get_all_users(p)
          \/ get_all_users_html(p)
    \/ Tick

Spec == Init /\ [][Next]_vars

(* SpecConc: two workers serving POST /register concurrently, each with   *)
(* its own session                                                        *)

InitConc == InitWith({1, 2})

NextConc ==
    \E p \in Workers :
        \/ RegisterRequest(p)
        \/ post_register(p)
        \/ post_register_commit(p)

SpecConc == InitConc /\ [][NextConc]_vars

----------------------------------------------------------------------------
(* SpecToken: the token codec alone.  A token is issued for a subject id  *)
(* with a TTL (None: the default), the clock advances second by second    *)
(* or by a default lifetime, and the token is decoded.  Here loc holds    *)
(* the call's arguments and resp the result of the last decode.           *)

MaxSeconds == 3

TokenIds == {1, 2}

TTLs == {None, Some(0), Some(1), Some(2)}

issue_token(p) ==
    /\ pc[p] = "idle"
    /\ \E id \in TokenIds, d \in TTLs :
          /\ held' = Some([tok |-> create_access_token([sub |-> Some(Str(id))], d, now),
                           uid |-> id, out |-> FALSE])
          /\ loc' = [loc EXCEPT ![p] = Some([at |-> now, ttl |-> d])]
    /\ pc' = [pc EXCEPT ![p] = "issued"]
    /\ UNCHANGED <<users, now, req, resp>>

parse_token(p) ==
    /\ pc[p] = "issued"
    /\ resp' = [resp EXCEPT ![p] =
                  Some([claims |-> decode_token(held[1].tok, now), at |-> now])]
    /\ UNCHANGED <<users, now, pc, req, loc, held>>

TokenTick ==
    /\ \E t \in {now + 1, now + DefaultTTL} :
          /\ t % DefaultTTL <= MaxSeconds
          /\ t <= DefaultTTL + MaxSeconds
          /\ now' = t
    /\ UNCHANGED <<users, pc, req, loc, resp, held>>

NextToken ==
    \/ \E p \in Workers : issue_token(p) \/ parse_token(p)
    \/ TokenTick

SpecToken == Init /\ [][NextToken]_vars

----------------------------------------------------------------------------
(* Vocabulary of the properties, defined apart from the handlers           *)

(* An address with its padding removed and its letters in lower case *)
Canon(s) ==
    LET inner == {i \in 1..Len(s) : s[i] # " "}
        lo == CHOOSE i \in inner : \A j \in inner : i <= j
        hi == CHOOSE i \in inner : \A j \in inner : j <= i
        small(c) == IF c = "A" THEN "a" ELSE IF c = "B" THEN "b" ELSE c
    IN  IF inner = {} THEN <<>>
        ELSE [k \in 1..(hi - lo + 1) |-> small(s[lo + k - 1])]

Registered(email) == \E u \in Rows(users) : u.email = Canon(email)

(* Worker p takes a step of its handler / its handler returns in this step *)
Steps(p) == pc[p] # "idle" /\ pc'[p] # pc[p]

Returns(p) == pc[p] # "idle" /\ pc'[p] = "idle"

(* The response worker p returns in this step is a 303 to /discussions     *)
(* that sets an access_token signed with the key, for the subject of id    *)
SetsCookieFor(p, id) ==
    /\ resp'[p] # None
    /\ resp'[p][1].status = 303
    /\ resp'[p][1].location = "/discussions"
    /\ resp'[p][1].cookie = "set"
    /\ resp'[p][1].token # None
    /\ resp'[p][1].token[1].form = "jwt"
    /\ resp'[p][1].token[1].key = SECRET_KEY
    /\ resp'[p][1].token[1].sub = Some(Str(id))

(* The response worker p returns in this step has this status, no cookie *)
Rejects(p, status) ==
    /\ resp'[p] # None
    /\ resp'[p][1].status = status
    /\ resp'[p][1].cookie = "none"
    /\ resp'[p][1].token = None

----------------------------------------------------------------------------
(* C1: a POST /register whose email, trimmed and lower-cased, is the email *)
(* of a stored user never changes the users table, and returns 400 without *)
(* a cookie.                                                               *)
C1_DuplicateEmailRejected ==
    [][\A p \in Workers :
          (/\ Steps(p)
           /\ req[p].kind = "register"
           /\ Registered(req[p].email))
          => /\ users' = users
             /\ Returns(p) => Rejects(p, 400)]_vars

(* A registration of " A " was refused as a duplicate of the stored "a" *)
C1_Witness ==
    \E p \in Workers :
        /\ pc[p] = "idle"
        /\ req[p].kind = "register"
        /\ req[p].email = <<" ", "A", " ">>
        /\ req[p].password = req[p].password_confirm
        /\ resp[p] = Some(HTMLResponse(400, "email already exists"))
        /\ Len(users) = 1
        /\ users[1].email = <<"a">>

(* C2: no state holds two users with the same normalized email; of two     *)
(* registrations in flight with the same fresh email, the one that commits *)
(* first returns 303 with a cookie and stores the only row for the email,  *)
(* and a registration that commits after the row of another registration   *)
(* of that email was stored returns 400 and stores nothing.                *)
C2_ConcurrentRegistration ==
    /\ [](\A i, j \in 1..Len(users) :
              Canon(users[i].email) = Canon(users[j].email) => i = j)
    /\ [][\A p, q \in Workers :
             (/\ p # q
              /\ pc[p] = "commit" /\ pc[q] = "commit"
              /\ Canon(req[p].email) = Canon(req[q].email)
              /\ ~Registered(req[p].email)
              /\ Returns(p))
             => /\ SetsCookieFor(p, users'[Len(users')].id)
                /\ Cardinality({i \in 1..Len(users') :
                                   users'[i].email = Canon(req[p].email)}) = 1
                /\ pc'[q] = "commit"]_vars
    /\ [][\A p, q \in Workers :
             (/\ p # q
              /\ pc[p] = "commit" /\ pc[q] = "idle"
              /\ req[q].kind = "register"
              /\ Canon(req[p].email) = Canon(req[q].email)
              /\ resp[q] # None /\ resp[q][1].status = 303
              /\ Returns(p))
             => /\ Rejects(p, 400)
                /\ users' = users
                /\ Cardinality({i \in 1..Len(users) :
                                   users[i].email = Canon(req[p].email)}) = 1]_vars

(* Two registrations of the same address, one answered 303 and one 400 *)
C2_Witness ==
    /\ Workers = {1, 2}
    /\ pc[1] = "idle" /\ pc[2] = "idle"
    /\ req[1].kind = "register" /\ req[2].kind = "register"
    /\ req[1].email = <<"a">> /\ req[2].email = <<" ", "A", " ">>
    /\ resp[1] = Some(HTMLResponse(400, "email already exists"))
    /\ resp[2] # None /\ resp[2][1].status = 303 /\ resp[2][1].cookie = "set"
    /\ Len(users) = 1

(* C3 as stated: every POST /register whose normalized email is not in    *)
(* the store returns 303 to /discussions with the cookie and stores one    *)
(* new user with that email.                                               *)
C3_FreshEmailAlwaysSucceeds ==
    [][\A p \in Workers :
          (/\ Returns(p)
           /\ req[p].kind = "register"
           /\ ~Registered(req[p].email))
          => /\ Len(users') = Len(users) + 1
             /\ users'[Len(users')].email = Canon(req[p].email)
             /\ SetsCookieFor(p, users'[Len(users')].id)]_vars

(* C3 amended: a POST /register with password = password_confirm goes on   *)
(* to its insert, and if its normalized email is not in the store when the *)
(* insert commits it returns 303 to /discussions with the cookie, whose    *)
(* subject is the new id, and exactly one new user, with that normalized   *)
(* email, is stored.                                                       *)
C3_FreshEmailSucceeds ==
    [][\A p \in Workers :
          /\ (/\ Steps(p)
              /\ pc[p] = "register"
              /\ req[p].password = req[p].password_confirm)
             => pc'[p] = "commit"
          /\ (/\ Returns(p)
              /\ pc[p] = "commit"
              /\ ~Registered(req[p].email))
             => /\ Len(users') = Len(users) + 1
                /\ \A i \in 1..Len(users) : users'[i] = users[i]
                /\ users'[Len(users')].email = Canon(req[p].email)
                /\ \A u \in Rows(users) : u.id # users'[Len(users')].id
                /\ SetsCookieFor(p, users'[Len(users')].id)]_vars

(* A registration of " A " with a fresh address was stored as "a" *)
C3_Witness ==
    \E p \in Workers :
        /\ pc[p] = "idle"
        /\ req[p].kind = "register"
        /\ req[p].email = <<" ", "A", " ">>
        /\ resp[p] # None
        /\ resp[p][1].status = 303
        /\ resp[p][1].cookie = "set"
        /\ resp[p][1].token # None
        /\ \E u \in Rows(users) :
              /\ u.email = <<"a">>
              /\ resp[p][1].token[1].sub = Some(Str(u.id))

(* C8: a POST /register with password # password_confirm returns at once, *)
(* with the 400 mismatch response and no cookie, and the users table is    *)
(* unchanged, whether or not the email is registered.                      *)
C8_PasswordMismatchRejected ==
    [][\A p \in Workers :
          (/\ Steps(p)
           /\ req[p].kind = "register"
           /\ req[p].password # req[p].password_confirm)
          => /\ Returns(p)
             /\ resp'[p] = Some(HTMLResponse(400, "passwords do not match"))
             /\ users' = users]_vars

(* A mismatching registration of a registered address got the mismatch    *)
(* response                                                               *)
C8_Witness ==
    \E p \in Workers :
        /\ pc[p] = "idle"
        /\ req[p].kind = "register"
        /\ req[p].password # req[p].password_confirm
        /\ Registered(req[p].email)
        /\ resp[p] = Some(HTMLResponse(400, "passwords do not match"))

(* C4: POST /login returns 401 without a cookie when no stored user has   *)
(* the trimmed, lower-cased email or when the password does not verify     *)
(* against that user's hash, and otherwise 303 to /discussions with a      *)
(* cookie whose subject is that user's id; a password hashed at            *)
(* registration (with any salt) verifies, so a registered user logs in     *)
(* with any case or padding variant of the email.                          *)
C4_Login ==
    [][\A p \in Workers :
          (Returns(p) /\ req[p].kind = "login")
          => LET found == {u \in Rows(users) : u.email = Canon(req[p].email)}
             IN  /\ found = {} => Rejects(p, 401)
                 /\ \A u \in found :
                       /\ verify_password(req[p].password, u.hashed_password)
                          => SetsCookieFor(p, u.id)
                       /\ ~verify_password(req[p].password, u.hashed_password)
                          => Rejects(p, 401)
                       /\ (\E salt \in Salts :
                              u.hashed_password =
                                  get_password_hash(req[p].password, salt))
                          => SetsCookieFor(p, u.id)
                       /\ (\E salt \in Salts, other \in Passwords :
                              /\ other # req[p].password
                              /\ u.hashed_password = get_password_hash(other, salt))
                          => Rejects(p, 401)
                 /\ users' = users]_vars

(* The user stored as "a" with password "p" logged in as " A " *)
C4_Witness ==
    \E p \in Workers :
        /\ pc[p] = "idle"
        /\ req[p].kind = "login"
        /\ req[p].email = <<" ", "A", " ">>
        /\ req[p].password = "p"
        /\ resp[p] # None
        /\ resp[p][1].status = 303
        /\ resp[p][1].token # None
        /\ \E u \in Rows(users) :
              /\ u.email = <<"a">>
              /\ resp[p][1].token[1].sub = Some(Str(u.id))

(* The subject names the user: its text, padding aside, is the id's digits *)
Names(sub, u) == sub # None /\ Canon(sub[1]) = Str(u.id)

(* The cookie authenticates u now: a JWT signed with the key, not expired, *)
(* whose subject names u                                                   *)
Authenticates(cookie, u) ==
    /\ cookie # None
    /\ cookie[1].form = "jwt"
    /\ cookie[1].key = SECRET_KEY
    /\ cookie[1].exp >= now
    /\ Names(cookie[1].sub, u)

(* C5: GET /discussions resolves the cookie to the stored user it          *)
(* authenticates and to anonymous for every other cookie value, and then   *)
(* completes with a 200 page: the template rendered for that user and the  *)
(* user list, or the fallback page.                                        *)
C5_DiscussionsNeverFails ==
    [][\A p \in Workers :
          /\ (Steps(p) /\ pc[p] = "discussions")
             => /\ pc'[p] = "render"
                /\ loc'[p] # None
                /\ \A u \in Rows(users) :
                      Authenticates(req[p].cookie, u) <=> loc'[p][1] = Some(u)
                /\ (\A u \in Rows(users) : ~Authenticates(req[p].cookie, u))
                      => loc'[p][1] = None
          /\ (Steps(p) /\ pc[p] = "render")
             => /\ Returns(p)
                /\ resp'[p] # None
                /\ resp'[p][1].status = 200
                /\ resp'[p][1].body = "discussions"
                   => /\ resp'[p][1].user = loc[p][1]
                      /\ resp'[p][1].users_list = users
                /\ resp'[p][1].user \in {None, loc[p][1]}
                /\ users' = users]_vars

(* A token with a forged signature for the id of a stored user was served  *)
(* the page as anonymous                                                   *)
C5_Witness ==
    \E p \in Workers :
        /\ pc[p] = "idle"
        /\ req[p].kind = "discussions"
        /\ req[p].cookie = Some(Jwt(Some(Str(1)), 2 * DefaultTTL, "another key"))
        /\ resp[p] # None
        /\ resp[p][1].status = 200
        /\ resp[p][1].body = "discussions"
        /\ resp[p][1].user = None
        /\ resp[p][1].users_list # <<>>

(* C7: GET /logout returns 303 to / deleting the access_token cookie and   *)
(* leaves the users table unchanged, whatever cookie the request carries.  *)
C7_Logout ==
    [][\A p \in Workers :
          (Steps(p) /\ req[p].kind = "logout")
          => /\ Returns(p)
             /\ resp'[p] # None
             /\ resp'[p][1].status = 303
             /\ resp'[p][1].location = "/"
             /\ resp'[p][1].cookie = "delete"
             /\ users' = users]_vars

(* A logout that carried a token authenticating a stored user *)
C7_Witness ==
    \E p \in Workers :
        /\ pc[p] = "idle"
        /\ req[p].kind = "logout"
        /\ \E u \in Rows(users) : Authenticates(req[p].cookie, u)
        /\ resp[p] = Some(LogoutRedirect)

(* C9: after GET /logout, a GET /discussions that presents a token issued  *)
(* before the logout, before the token's expiry, resolves to the user the  *)
(* token was issued for.                                                   *)
C9_LogoutDoesNotRevoke ==
    [][\A p \in Workers :
          (/\ Steps(p)
           /\ pc[p] = "discussions"
           /\ held # None
           /\ held[1].out
           /\ req[p].cookie = Some(held[1].tok)
           /\ now < held[1].tok.exp)
          => /\ loc'[p] # None
             /\ loc'[p][1] # None
             /\ loc'[p][1][1].id = held[1].uid]_vars

(* The page was served to the user of a token presented after a logout *)
C9_Witness ==
    \E p \in Workers :
        /\ pc[p] = "idle"
        /\ req[p].kind = "discussions"
        /\ held # None
        /\ held[1].out
        /\ req[p].cookie = Some(held[1].tok)
        /\ resp[p] # None
        /\ resp[p][1].user # None
        /\ resp[p][1].user[1].id = held[1].uid

(* C10: the users table changes only by a POST /register that returns     *)
(* 303, which appends one row with an id above every stored id and leaves  *)
(* the stored rows as they are; so the subject of a token the system       *)
(* issued is the id of a stored user, and such a token presented to        *)
(* /discussions before its expiry resolves to the user it was issued for.  *)
C10_StoreOnlyGrows ==
    /\ [][users' # users =>
             /\ Len(users') = Len(users) + 1
             /\ \A i \in 1..Len(users) : users'[i] = users[i]
             /\ \A u \in Rows(users) : u.id < users'[Len(users')].id
             /\ \E p \in Workers :
                   /\ Returns(p)
                   /\ req[p].kind = "register"
                   /\ SetsCookieFor(p, users'[Len(users')].id)]_vars
    /\ [](held # None =>
             \E u \in Rows(users) :
                /\ u.id = held[1].uid
                /\ held[1].tok.sub = Some(Str(u.id)))
    /\ [][\A p \in Workers :
             (/\ Steps(p)
              /\ pc[p] = "discussions"
              /\ held # None
              /\ req[p].cookie = Some(held[1].tok)
              /\ now < held[1].tok.exp)
             => loc'[p] = Some(find_by_id(users, held[1].uid))]_vars

(* With two users stored, the token kept for the first one still resolves  *)
(* to the first one                                                        *)
C10_Witness ==
    \E p \in Workers :
        /\ pc[p] = "idle"
        /\ req[p].kind = "discussions"
        /\ Len(users) = 2
        /\ held # None
        /\ held[1].uid = users[1].id
        /\ req[p].cookie = Some(held[1].tok)
        /\ resp[p] # None
        /\ resp[p][1].user = Some(users[1])
        /\ resp[p][1].users_list = users

(* C6: a token issued by create_access_token for user X at time t with    *)
(* TTL d (absent: 7 days) decodes at every time before t + d to claims     *)
(* whose sub is the string of X's id, and decode_token returns None at     *)
(* every time after t + d.                                                 *)
C6_TokenLifetime ==
    \A p \in Workers :
        (pc[p] = "issued" /\ resp[p] # None)
        => LET d == IF loc[p][1].ttl = None THEN DefaultTTL ELSE loc[p][1].ttl[1]
               expiry == loc[p][1].at + d
               parsed == resp[p][1]
           IN  /\ parsed.at < expiry
                  => /\ parsed.claims # None
                     /\ parsed.claims[1].sub = Some(Str(held[1].uid))
               /\ parsed.at > expiry => parsed.claims = None

====
